---- MODULE Spec2Model ----
(***************************************************************************)
(* A model of zato/server/connection/web_socket/pubsub.py: the PubSubTool  *)
(* registry of sub_keys, the per-sub_key SortedList of messages and the    *)
(* DeliveryTask greenlet that drains it.                                   *)
(*                                                                         *)
(* Greenlets are scheduled cooperatively (gevent): a step of the model is  *)
(* the code a greenlet runs between two points where it can be suspended:  *)
(* a sleep, a call of a collaborator (deliver, confirm, the SQL fetch) and *)
(* the acquisition of a lock that another greenlet holds.                  *)
(***************************************************************************)
EXTENDS Integers, Sequences, FiniteSets, TLC

\* ---------------------------------------------------------------- bounds

\* How many distinct messages (pub_msg_id values) are ever published.
MaxMsgs == 3

\* How many DeliveryTask / SortedList / RLock triples are ever created.
MaxObj == 2

\* The sub_keys callers use.
Keys == {"k1", "k2"}

MsgIds == 1..MaxMsgs
ObjIds == 1..MaxObj

\* ------------------------------------------------------ program constants

\* Message.__cmp__(self, other, max_pri=9)
max_pri == 9

\* DeliveryTask.run(self, no_msg_sleep_time=1)
no_msg_sleep_time == 1

\* sleep(randint(10, 20))
backoff_min == 10
backoff_max == 20

\* A slip: the upper end of the range is not included in it (randrange).
randint_Open(a, b) == [lo |-> a, hi |-> b - 1]

\* randint(a, b) is some integer N with a <= N <= b. Nothing but the sleep
\* reads the number, so a state keeps the range it is drawn from.
randint(a, b) == [lo |-> a, hi |-> b]

\* A sleep of exactly n seconds.
Exactly(n) == [lo |-> n, hi |-> n]

\* No sleep in progress.
NoSleep == [lo |-> 0, hi |-> 0]

\* self.batch_size[sub_key] = 1
default_batch_size == 1

\* ------------------------------------------------------------------ state

VARIABLES
    \* PubSubTool
    lock,            \* self.lock: "free" or the name of the holder
    sub_keys,        \* self.sub_keys, a list
    batch_size,      \* self.batch_size, a dict
    last_sql_run,    \* self.last_sql_run, a dict
    sub_key_locks,   \* self.sub_key_locks, a dict: sub_key -> lock object
    delivery_lists,  \* self.delivery_lists, a dict: sub_key -> list object
    delivery_tasks,  \* self.delivery_tasks, a dict: sub_key -> task object
    \* the objects add_sub_key_no_lock creates
    nobj,            \* how many of each were created so far
    lists,           \* list object -> its content, a sequence of message ids
    locks,           \* lock object -> "free" or the name of the holder
    task_obj,        \* task object -> [sub_key, delivery_lock, delivery_list]
    keep_running,    \* task object -> self.keep_running
    pc,              \* task object -> where its greenlet is
    idx,             \* task object -> index the iterator of the for loop reads next
    msg,             \* task object -> the loop variable msg
    success,         \* task object -> what the last _run_delivery returned
    sleep_time,      \* task object -> range of the argument of the sleep in progress
    \* the messages
    catalog,         \* message id -> [priority, ext_pub_time, pub_time]
    \* what was observed (read by the properties only)
    enqueued,        \* list object -> ids ever added to it
    confirmed,       \* list object -> ids for which confirm returned
    snapshot,        \* task object -> ids in the list when the pass began
    delivered,       \* task object -> ids deliver was invoked for in this pass
    failed,          \* task object -> ids whose latest deliver call failed
    aborted,         \* task object -> the id deliver failed for in this pass, if any
    conf_failed,     \* task object -> ids whose confirm failed in this pass
    prev_conf_failed, \* task object -> ids whose confirm failed in the pass before
    readded,         \* add_sub_key was called for a sub_key it already had
    removed_all,     \* how many sub_keys the last remove_all_sub_keys found, or -1
    \* the call of handle_new_messages in progress
    hnm,             \* its arguments, where it is and the lock it holds
    seen             \* what was observed of it (read by the properties only)


registry == <<lock, sub_keys, batch_size, last_sql_run, sub_key_locks,
              delivery_lists, delivery_tasks>>
objects == <<nobj, lists, locks, task_obj, keep_running>>
greenlet == <<pc, idx, msg, success, sleep_time>>
calls == <<hnm, seen>>
observed == <<enqueued, confirmed, snapshot, delivered, failed, aborted,
              conf_failed, prev_conf_failed, readded, removed_all>>
vars == <<registry, objects, greenlet, catalog, calls, observed>>

\* ---------------------------------------------------------------- helpers

\* A dict d with d[k] = v set.
Put(d, k, v) == [x \in DOMAIN d \cup {k} |-> IF x = k THEN v ELSE d[x]]

\* A dict d after del d[k].
Del(d, k) == [x \in DOMAIN d \ {k} |-> d[x]]

\* A list s without its i-th element (del s[i]).
DelAt(s, i) == SubSeq(s, 1, i - 1) \o SubSeq(s, i + 1, Len(s))

\* A list s with x put at position i (s.insert(i - 1, x)).
InsertAt(s, i, x) == SubSeq(s, 1, i - 1) \o <<x>> \o SubSeq(s, i, Len(s))

Range(s) == {s[i] : i \in DOMAIN s}

\* cmp of two tuples of three integers: -1, 0 or 1.
CmpTuple(a, b) ==
    IF a[1] # b[1] THEN (IF a[1] < b[1] THEN -1 ELSE 1)
    ELSE IF a[2] # b[2] THEN (IF a[2] < b[2] THEN -1 ELSE 1)
    ELSE IF a[3] # b[3] THEN (IF a[3] < b[3] THEN -1 ELSE 1)
    ELSE 0

\* A slip: the priority is taken as it is, not turned around with max_pri.
SortKey_PriorityAsIs(m) ==
    <<catalog[m].priority, catalog[m].ext_pub_time, catalog[m].pub_time>>

\* The tuple Message.__cmp__ builds for the message with id m.
SortKey(m) ==
    <<max_pri - catalog[m].priority, catalog[m].ext_pub_time, catalog[m].pub_time>>

\* Message.__cmp__(self, other) for the messages with ids a and b.
MessageCmp(a, b) == CmpTuple(SortKey(a), SortKey(b))

\* bisect_right(s, m): the first position whose element is greater than m.
BisectRight(s, m) ==
    LET after == {i \in 1..Len(s) : MessageCmp(m, s[i]) < 0}
    IN  IF after = {} THEN Len(s) + 1
        ELSE CHOOSE i \in after : \A j \in after : i <= j

\* bisect_left(s, m): the first position whose element is not less than m.
BisectLeft(s, m) ==
    LET from == {i \in 1..Len(s) : MessageCmp(s[i], m) >= 0}
    IN  IF from = {} THEN Len(s) + 1
        ELSE CHOOSE i \in from : \A j \in from : i <= j

\* SortedList.add(m): insort_right into the list.
SortedAdd(s, m) == InsertAt(s, BisectRight(s, m), m)

\* SortedList.add of each message of the sequence ms, in turn.
RECURSIVE SortedAddAll(_, _)
SortedAddAll(s, ms) ==
    IF ms = <<>> THEN s ELSE SortedAddAll(SortedAdd(s, Head(ms)), Tail(ms))

\* Whether SortedList.remove(m) finds an element that compares equal to m.
SortedHas(s, m) ==
    LET i == BisectLeft(s, m) IN i <= Len(s) /\ MessageCmp(s[i], m) = 0

\* SortedList.remove(m): deletes the element bisect_left finds.
SortedRemove(s, m) == DelAt(s, BisectLeft(s, m))

\* list.remove(x): the list without the first occurrence of x.
ListRemove(s, x) ==
    DelAt(s, CHOOSE i \in 1..Len(s) : s[i] = x /\ \A j \in 1..(i - 1) : s[j] # x)

\* ------------------------------------------------------------------- Init

\* The fields of the messages published: priority before the two times
\* (the first sorts first though it is the latest), ext_pub_time before
\* pub_time (the third sorts before the fourth), pub_time last.
MsgFields ==
    { [priority |-> 9, ext_pub_time |-> 50, pub_time |-> 2],
      [priority |-> 5, ext_pub_time |-> 10, pub_time |-> 1],
      [priority |-> 5, ext_pub_time |-> 10, pub_time |-> 2],
      [priority |-> 5, ext_pub_time |-> 50, pub_time |-> 1] }

\* The position of a message's fields in one fixed enumeration of MsgFields.
FieldRank(f) ==
    (IF f.priority = 9 THEN 0 ELSE 4) + (IF f.ext_pub_time = 10 THEN 0 ELSE 2)
        + (f.pub_time - 1)

\* What the message ids stand for. The ids are labels (any id may be given
\* to a list before any other), so the catalogs are taken up to a renaming
\* of the ids; two ids may stand for messages with equal fields.
Catalogs ==
    {c \in [MsgIds -> MsgFields] :
        \A i \in MsgIds : \A j \in MsgIds : i < j => FieldRank(c[i]) <= FieldRank(c[j])}

NoMsg == 0
NoKey == "-"

\* No call of handle_new_messages was made yet.
NoCall == [pc |-> "idle", sub_key_list |-> <<>>, has_gd |-> FALSE, non_gd_msg_list |-> <<>>,
           lock |-> 0]

NothingSeen ==
    [sub_key_list |-> <<>>, fetches |-> [k \in Keys |-> 0], fetched |-> [k \in Keys |-> {}],
     delivery_lists |-> <<>>, touched |-> {}]

\* PubSubTool.__init__: no sub_key, no list, no task.
Init ==
    /\ lock = "free"
    /\ sub_keys = <<>>
    /\ batch_size = <<>>
    /\ last_sql_run = <<>>
    /\ sub_key_locks = <<>>
    /\ delivery_lists = <<>>
    /\ delivery_tasks = <<>>
    /\ nobj = 0
    /\ lists = [o \in ObjIds |-> <<>>]
    /\ locks = [o \in ObjIds |-> "free"]
    /\ task_obj = [o \in ObjIds |-> [sub_key |-> NoKey, delivery_lock |-> 0, delivery_list |-> 0]]
    /\ keep_running = [o \in ObjIds |-> FALSE]
    /\ pc = [o \in ObjIds |-> "none"]
    /\ idx = [o \in ObjIds |-> 0]
    /\ msg = [o \in ObjIds |-> NoMsg]
    /\ success = [o \in ObjIds |-> "unset"]
    /\ sleep_time = [o \in ObjIds |-> NoSleep]
    /\ catalog \in Catalogs
    /\ enqueued = [o \in ObjIds |-> {}]
    /\ confirmed = [o \in ObjIds |-> {}]
    /\ snapshot = [o \in ObjIds |-> {}]
    /\ delivered = [o \in ObjIds |-> {}]
    /\ failed = [o \in ObjIds |-> {}]
    /\ aborted = [o \in ObjIds |-> NoMsg]
    /\ conf_failed = [o \in ObjIds |-> {}]
    /\ prev_conf_failed = [o \in ObjIds |-> {}]
    /\ readded = FALSE
    /\ removed_all = -1
    /\ hnm = NoCall
    /\ seen = NothingSeen

\* ---------------------------------------------------------- PubSubTool

\* DeliveryTask.__init__ for the new object o: the fields, and the greenlet
\* spawned at the top of run.
NewDeliveryTask(o, sub_key) ==
    /\ task_obj' = [task_obj EXCEPT
                        ![o] = [sub_key |-> sub_key, delivery_lock |-> o, delivery_list |-> o]]
    /\ keep_running' = [keep_running EXCEPT ![o] = TRUE]
    /\ pc' = [pc EXCEPT ![o] = "spawned"]

\* What add_sub_key_no_lock does for a sub_key it does not have yet.
add_sub_key_new(sub_key) ==
    LET o == nobj + 1 IN
    /\ UNCHANGED readded
    /\ sub_keys' = Append(sub_keys, sub_key)
    /\ batch_size' = Put(batch_size, sub_key, default_batch_size)
    /\ last_sql_run' = Put(last_sql_run, sub_key, "None")
    /\ nobj' = o
    /\ delivery_lists' = Put(delivery_lists, sub_key, o)
    /\ NewDeliveryTask(o, sub_key)
    /\ delivery_tasks' = Put(delivery_tasks, sub_key, o)
    /\ sub_key_locks' = Put(sub_key_locks, sub_key, o)

\* A slip: the check `if sub_key in self.sub_keys: return` is left out.
add_sub_key_no_lock_NoCheck(sub_key) == nobj < MaxObj /\ add_sub_key_new(sub_key)

\* add_sub_key_no_lock(sub_key)
add_sub_key_no_lock(sub_key) ==
    IF sub_key \in Range(sub_keys)
    THEN /\ readded' = TRUE
         /\ UNCHANGED <<sub_keys, batch_size, last_sql_run, sub_key_locks, delivery_lists,
                        delivery_tasks, nobj, task_obj, keep_running, pc>>
    ELSE add_sub_key_new(sub_key)

\* add_sub_key(sub_key): add_sub_key_no_lock with self.lock held.
AddSubKey(sub_key) ==
    /\ lock = "free"
    /\ sub_key \in Range(sub_keys) \/ nobj < MaxObj
    /\ add_sub_key_no_lock(sub_key)
    /\ UNCHANGED <<lock, lists, locks, idx, msg, success, sleep_time, catalog, calls, enqueued,
                   confirmed, snapshot, delivered, failed, aborted, conf_failed,
                   prev_conf_failed, removed_all>>

\* What remove_sub_key reads and writes: the list and the dicts of the
\* PubSubTool, and the keep_running flags of the tasks.
Tool ==
    [sub_keys |-> sub_keys, batch_size |-> batch_size, last_sql_run |-> last_sql_run,
     sub_key_locks |-> sub_key_locks, delivery_lists |-> delivery_lists,
     delivery_tasks |-> delivery_tasks, keep_running |-> keep_running]

SetTool(T) ==
    /\ sub_keys' = T.sub_keys
    /\ batch_size' = T.batch_size
    /\ last_sql_run' = T.last_sql_run
    /\ sub_key_locks' = T.sub_key_locks
    /\ delivery_lists' = T.delivery_lists
    /\ delivery_tasks' = T.delivery_tasks
    /\ keep_running' = T.keep_running

\* A slip: stop leaves keep_running as it is.
stop_NoEffect(T, t) == T

\* DeliveryTask.stop() of the task object t.
stop(T, t) == [T EXCEPT !.keep_running[t] = FALSE]

\* The last two statements of the try block of remove_sub_key.
remove_sub_key_task(T, sub_key) ==
    IF sub_key \notin DOMAIN T.delivery_tasks THEN T
    ELSE [stop(T, T.delivery_tasks[sub_key]) EXCEPT !.delivery_tasks = Del(@, sub_key)]

\* A slip: the del of last_sql_run is left out.
remove_sub_key_dels_KeepsLast(T, sub_key) ==
    IF sub_key \notin DOMAIN T.batch_size THEN T
    ELSE LET T1 == [T EXCEPT !.batch_size = Del(@, sub_key)] IN
    IF sub_key \notin DOMAIN T1.sub_key_locks THEN T1
    ELSE LET T3 == [T1 EXCEPT !.sub_key_locks = Del(@, sub_key)] IN
    IF sub_key \notin DOMAIN T3.delivery_lists THEN T3
    ELSE remove_sub_key_task([T3 EXCEPT !.delivery_lists = Del(@, sub_key)], sub_key)

\* The dels of the try block of remove_sub_key, in order: a del of a missing
\* key raises KeyError, which ends the block with the rest undone.
remove_sub_key_dels(T, sub_key) ==
    IF sub_key \notin DOMAIN T.batch_size THEN T
    ELSE LET T1 == [T EXCEPT !.batch_size = Del(@, sub_key)] IN
    IF sub_key \notin DOMAIN T1.last_sql_run THEN T1
    ELSE LET T2 == [T1 EXCEPT !.last_sql_run = Del(@, sub_key)] IN
    IF sub_key \notin DOMAIN T2.sub_key_locks THEN T2
    ELSE LET T3 == [T2 EXCEPT !.sub_key_locks = Del(@, sub_key)] IN
    IF sub_key \notin DOMAIN T3.delivery_lists THEN T3
    ELSE remove_sub_key_task([T3 EXCEPT !.delivery_lists = Del(@, sub_key)], sub_key)

\* A slip: self.sub_keys.pop() in place of self.sub_keys.remove(sub_key): the
\* last sub_key leaves the list, whichever it is.
remove_sub_key_PopsLast(T, sub_key) ==
    IF T.sub_keys = <<>> THEN T
    ELSE remove_sub_key_dels([T EXCEPT !.sub_keys = SubSeq(@, 1, Len(@) - 1)], sub_key)

\* remove_sub_key(sub_key), with self.lock held: self.sub_keys.remove raises
\* ValueError for a sub_key that is not in the list; what the try block
\* raises is logged and dropped.
remove_sub_key(T, sub_key) ==
    IF sub_key \notin Range(T.sub_keys) THEN T
    ELSE remove_sub_key_dels([T EXCEPT !.sub_keys = ListRemove(@, sub_key)], sub_key)

RemoveSubKey(sub_key) ==
    /\ lock = "free"
    /\ SetTool(remove_sub_key(Tool, sub_key))
    /\ UNCHANGED <<lock, nobj, lists, locks, task_obj, greenlet, catalog, calls, observed>>

\* The for loop of remove_all_sub_keys over the copy of self.sub_keys.
RECURSIVE remove_each(_, _)
remove_each(T, keys) ==
    IF keys = <<>> THEN T ELSE remove_each(remove_sub_key(T, Head(keys)), Tail(keys))

\* A slip: the for loop is over self.sub_keys itself, not over a copy of it:
\* the iterator reads position i of the list as the removals leave it.
RECURSIVE remove_live(_, _)
remove_live(T, i) ==
    IF i > Len(T.sub_keys) THEN T
    ELSE remove_live(remove_sub_key(T, T.sub_keys[i]), i + 1)

remove_all_sub_keys_NoCopy(T) == remove_live(T, 1)

\* remove_all_sub_keys(): no greenlet runs between the copy and the removals.
remove_all_sub_keys(T) == remove_each(T, T.sub_keys)

RemoveAllSubKeys ==
    /\ lock = "free"
    /\ SetTool(remove_all_sub_keys(Tool))
    /\ removed_all' = Len(sub_keys)
    /\ UNCHANGED <<lock, nobj, lists, locks, task_obj, greenlet, catalog, calls, enqueued,
                   confirmed, snapshot, delivered, failed, aborted, conf_failed,
                   prev_conf_failed, readded>>

\* _add_non_gd_messages_by_sub_key(sub_key, messages) on the list object o.
add_non_gd_messages(o, messages) ==
    /\ lists' = [lists EXCEPT ![o] = SortedAddAll(@, messages)]
    /\ enqueued' = [enqueued EXCEPT ![o] = @ \cup Range(messages)]

\* The message lists a caller passes: one message not yet given to the list
\* object o (a longer list is added message by message with no other
\* greenlet running in between, which is what successive calls can do too).
NewMessages(o) == {<<a>> : a \in MsgIds \ enqueued[o]}

\* add_non_gd_messages_by_sub_key(sub_key, messages) for a registered sub_key:
\* the lock of the sub_key is taken when it is free.
AddNonGDMessages(sub_key) ==
    /\ sub_key \in DOMAIN sub_key_locks
    /\ sub_key \in DOMAIN delivery_lists
    /\ locks[sub_key_locks[sub_key]] = "free"
    /\ \E messages \in NewMessages(delivery_lists[sub_key]) :
           add_non_gd_messages(delivery_lists[sub_key], messages)
    /\ UNCHANGED <<registry, nobj, locks, task_obj, keep_running, greenlet, catalog, calls,
                   confirmed, snapshot, delivered, failed, aborted, conf_failed,
                   prev_conf_failed, readded, removed_all>>

\* -------------------------------------------------------- DeliveryTask

ListOf(t) == lists[task_obj[t].delivery_list]

\* _run_delivery returns result to run, which sleeps for seconds. The locals
\* of _run_delivery are gone, and so is what was observed of the pass.
Return(t, result, seconds) ==
    /\ pc' = [pc EXCEPT ![t] = "sleep"]
    /\ idx' = [idx EXCEPT ![t] = 0]
    /\ msg' = [msg EXCEPT ![t] = NoMsg]
    /\ success' = [success EXCEPT ![t] = result]
    /\ sleep_time' = [sleep_time EXCEPT ![t] = seconds]
    /\ snapshot' = [snapshot EXCEPT ![t] = {}]
    /\ delivered' = [delivered EXCEPT ![t] = {}]

\* One turn of `for msg in self.delivery_list`, the list now holding L: the
\* iterator reads the element at its index, and deliver is called with it;
\* past the end the loop is over, _run_delivery returns True and run sleeps.
ForNext(t, L, i) ==
    IF i < Len(L)
    THEN /\ pc' = [pc EXCEPT ![t] = "deliver"]
         /\ idx' = [idx EXCEPT ![t] = i + 1]
         /\ msg' = [msg EXCEPT ![t] = L[i + 1]]
         /\ delivered' = [delivered EXCEPT ![t] = @ \cup {L[i + 1]}]
         /\ UNCHANGED <<success, sleep_time, snapshot>>
    ELSE Return(t, TRUE, Exactly(no_msg_sleep_time))

\* A slip: the loop of run is `while True`, keep_running is not read.
LoopTop_IgnoresFlag(t) ==
    /\ pc[t] \in {"spawned", "sleep"}
    /\ IF ListOf(t) = <<>>
       THEN /\ pc' = [pc EXCEPT ![t] = "sleep"]
            /\ sleep_time' = [sleep_time EXCEPT ![t] = Exactly(no_msg_sleep_time)]
            /\ UNCHANGED <<idx, msg, success, snapshot, delivered, aborted,
                           conf_failed, prev_conf_failed>>
       ELSE /\ snapshot' = [snapshot EXCEPT ![t] = Range(ListOf(t))]
            /\ aborted' = [aborted EXCEPT ![t] = NoMsg]
            /\ prev_conf_failed' = [prev_conf_failed EXCEPT ![t] = conf_failed[t]]
            /\ conf_failed' = [conf_failed EXCEPT ![t] = {}]
            /\ pc' = [pc EXCEPT ![t] = "deliver"]
            /\ idx' = [idx EXCEPT ![t] = 1]
            /\ msg' = [msg EXCEPT ![t] = ListOf(t)[1]]
            /\ delivered' = [delivered EXCEPT ![t] = {ListOf(t)[1]}]
            /\ success' = [success EXCEPT ![t] = "unset"]
            /\ sleep_time' = [sleep_time EXCEPT ![t] = NoSleep]
    /\ UNCHANGED <<registry, objects, catalog, calls, enqueued, confirmed, failed, readded, removed_all>>

\* The greenlet runs, for the first time or because its sleep returned, and
\* is at the top of the while loop of run: the loop ends when keep_running is
\* false, sleeps when the list is empty and else calls _run_delivery, whose
\* for loop takes the first message and calls deliver with it.
LoopTop(t) ==
    /\ pc[t] \in {"spawned", "sleep"}
    /\ IF ~keep_running[t]
       THEN /\ pc' = [pc EXCEPT ![t] = "done"]
            /\ sleep_time' = [sleep_time EXCEPT ![t] = NoSleep]
            /\ UNCHANGED <<idx, msg, success, snapshot, delivered, aborted,
                           conf_failed, prev_conf_failed>>
       ELSE IF ListOf(t) = <<>>
       THEN /\ pc' = [pc EXCEPT ![t] = "sleep"]
            /\ sleep_time' = [sleep_time EXCEPT ![t] = Exactly(no_msg_sleep_time)]
            /\ UNCHANGED <<idx, msg, success, snapshot, delivered, aborted,
                           conf_failed, prev_conf_failed>>
       ELSE /\ snapshot' = [snapshot EXCEPT ![t] = Range(ListOf(t))]
            /\ aborted' = [aborted EXCEPT ![t] = NoMsg]
            /\ prev_conf_failed' = [prev_conf_failed EXCEPT ![t] = conf_failed[t]]
            /\ conf_failed' = [conf_failed EXCEPT ![t] = {}]
            /\ pc' = [pc EXCEPT ![t] = "deliver"]
            /\ idx' = [idx EXCEPT ![t] = 1]
            /\ msg' = [msg EXCEPT ![t] = ListOf(t)[1]]
            /\ delivered' = [delivered EXCEPT ![t] = {ListOf(t)[1]}]
            /\ success' = [success EXCEPT ![t] = "unset"]
            /\ sleep_time' = [sleep_time EXCEPT ![t] = NoSleep]
    /\ UNCHANGED <<registry, objects, catalog, calls, enqueued, confirmed, failed, readded, removed_all>>

\* A slip: the failure of deliver is logged and the loop goes on with the
\* next message, as it does after a failure of confirm.
DeliverFails_GoesOn(t) ==
    /\ pc[t] = "deliver"
    /\ failed' = [failed EXCEPT ![t] = @ \cup {msg[t]}]
    /\ aborted' = [aborted EXCEPT ![t] = msg[t]]
    /\ ForNext(t, ListOf(t), idx[t])
    /\ UNCHANGED <<registry, objects, catalog, calls, enqueued, confirmed, conf_failed,
                   prev_conf_failed, readded, removed_all>>

\* deliver_pubsub_msg_cb(msg) raises: _run_delivery returns (None, a false
\* value), run sleeps randint(10, 20).
DeliverFails(t) ==
    /\ pc[t] = "deliver"
    /\ Return(t, FALSE, randint(backoff_min, backoff_max))
    /\ failed' = [failed EXCEPT ![t] = @ \cup {msg[t]}]
    /\ aborted' = [aborted EXCEPT ![t] = msg[t]]
    /\ UNCHANGED <<registry, objects, catalog, calls, enqueued, confirmed, conf_failed,
                   prev_conf_failed, readded, removed_all>>

\* A slip: the call of confirm is inside `with self.delivery_lock`.
DeliverReturns_InsideWith(t) ==
    /\ pc[t] = "deliver"
    /\ locks[task_obj[t].delivery_lock] = "free"
    /\ locks' = [locks EXCEPT ![task_obj[t].delivery_lock] = "task"]
    /\ pc' = [pc EXCEPT ![t] = "confirm"]
    /\ failed' = [failed EXCEPT ![t] = @ \ {msg[t]}]
    /\ UNCHANGED <<registry, nobj, lists, task_obj, keep_running, idx, msg, success,
                   sleep_time, catalog, calls, enqueued, confirmed, snapshot, delivered,
                   aborted, conf_failed, prev_conf_failed, readded, removed_all>>

\* deliver_pubsub_msg_cb(msg) returns: confirm_pubsub_msg_delivered_cb is called.
DeliverReturns(t) ==
    /\ pc[t] = "deliver"
    /\ pc' = [pc EXCEPT ![t] = "confirm"]
    /\ failed' = [failed EXCEPT ![t] = @ \ {msg[t]}]
    /\ UNCHANGED <<registry, objects, idx, msg, success, sleep_time, catalog, calls, enqueued,
                   confirmed, snapshot, delivered, aborted, conf_failed, prev_conf_failed,
                   readded, removed_all>>

\* confirm_pubsub_msg_delivered_cb raises: logged, the loop goes on.
ConfirmFails(t) ==
    /\ pc[t] = "confirm"
    /\ conf_failed' = [conf_failed EXCEPT ![t] = @ \cup {msg[t]}]
    /\ ForNext(t, ListOf(t), idx[t])
    /\ UNCHANGED <<registry, objects, catalog, calls, enqueued, confirmed, failed, aborted,
                   prev_conf_failed, readded, removed_all>>

\* `with self.delivery_lock: self.delivery_list.remove(msg)` once the lock is
\* the task's, and the next turn of the loop. A ValueError of remove leaves
\* _run_delivery and is caught in run, which ends.
remove_and_next(t) ==
    LET o == task_obj[t].delivery_list IN
    IF SortedHas(lists[o], msg[t])
    THEN /\ lists' = [lists EXCEPT ![o] = SortedRemove(@, msg[t])]
         /\ ForNext(t, SortedRemove(lists[o], msg[t]), idx[t])
    ELSE /\ pc' = [pc EXCEPT ![t] = "done"]
         /\ UNCHANGED <<lists, idx, msg, success, sleep_time, snapshot, delivered>>

\* confirm_pubsub_msg_delivered_cb returns: the message is removed under the
\* delivery_lock, for which the task waits when another greenlet holds it.
ConfirmReturns(t) ==
    /\ pc[t] = "confirm"
    /\ confirmed' = [confirmed EXCEPT ![task_obj[t].delivery_list] = @ \cup {msg[t]}]
    /\ IF locks[task_obj[t].delivery_lock] = "free"
       THEN remove_and_next(t)
       ELSE /\ pc' = [pc EXCEPT ![t] = "remove"]
            /\ UNCHANGED <<lists, idx, msg, success, sleep_time, snapshot, delivered>>
    /\ UNCHANGED <<registry, nobj, locks, task_obj, keep_running, catalog, calls, enqueued,
                   failed, aborted, conf_failed, prev_conf_failed, readded, removed_all>>

\* The delivery_lock the task waited for is free: it is taken, the message
\* removed, the lock released.
RemoveMsg(t) ==
    /\ pc[t] = "remove"
    /\ locks[task_obj[t].delivery_lock] = "free"
    /\ remove_and_next(t)
    /\ UNCHANGED <<registry, nobj, locks, task_obj, keep_running, catalog, calls, enqueued,
                   confirmed, failed, aborted, conf_failed, prev_conf_failed, readded, removed_all>>

\* ------------------------------------------------- the delivery of one sub_key

\* One sub_key is added, once; messages are given to it and its task delivers
\* them; the sub_key may be removed, which stops the task.
NextDelivery ==
    \/ (nobj = 0 /\ AddSubKey("k1"))
    \/ RemoveSubKey("k1")
    \/ AddNonGDMessages("k1")
    \/ \E t \in ObjIds : LoopTop(t)
    \/ \E t \in ObjIds : DeliverFails(t)
    \/ \E t \in ObjIds : DeliverReturns(t)
    \/ \E t \in ObjIds : ConfirmFails(t)
    \/ \E t \in ObjIds : ConfirmReturns(t)

SpecDelivery == Init /\ [][NextDelivery]_vars

\* One catalog, of sort keys all different.
OneCatalog == CHOOSE c \in Catalogs : \A a, b \in MsgIds : a # b => c[a] # c[b]

\* gevent runs every greenlet that can run: a sleep returns, and so does each
\* call of deliver and of confirm, one way or the other.
FairTasks ==
    \A t \in ObjIds :
        /\ WF_vars(LoopTop(t))
        /\ WF_vars(DeliverFails(t) \/ DeliverReturns(t))
        /\ WF_vars(ConfirmFails(t) \/ ConfirmReturns(t))

\* The delivery of one sub_key with the tasks scheduled fairly. The run loop
\* reads no field of a message: one catalog is taken.
InitStop == Init /\ catalog = OneCatalog

SpecStop == InitStop /\ [][NextDelivery]_vars /\ FairTasks

\* ------------------------------------------------------ the registry of sub_keys

\* Callers add and remove sub_keys in any order; the tasks, whose lists stay
\* empty, run their loops.
NextRegistry ==
    \/ \E k \in Keys : AddSubKey(k)
    \/ \E k \in Keys : RemoveSubKey(k)
    \/ RemoveAllSubKeys
    \/ \E t \in ObjIds : LoopTop(t)

SpecRegistry == Init /\ [][NextRegistry]_vars

\* ------------------------------------------------------ handle_new_messages

\* What a call of handle_new_messages reads and writes while no other
\* greenlet runs: its own frame, the lists, and what is observed of it.
Frame == [hnm |-> hnm, lists |-> lists, enqueued |-> enqueued, fetches |-> seen.fetches]

\* A slip: the lock is taken with acquire() and released with release(), with
\* no try/finally around what is in between.
Raise_NoRelease(F) == [F EXCEPT !.hnm.pc = "raised"]

\* An exception leaves handle_new_messages; the with statement releases the lock.
Raise(F) == [F EXCEPT !.hnm.pc = "raised", !.hnm.lock = 0]

\* The with block of a sub_key is left and the for loop goes to the next one.
NextSubKey(F) == [F EXCEPT !.hnm.sub_key_list = Tail(@), !.hnm.lock = 0]

\* self.delivery_lists[sub_key].add(...) for each message of messages.
AddToList(F, o, messages) ==
    [F EXCEPT !.lists[o] = SortedAddAll(@, messages),
              !.enqueued[o] = @ \cup Range(messages)]

RECURSIVE hnm_for(_)

\* `if non_gd_msg_list: self._add_non_gd_messages_by_sub_key(...)` for the
\* first sub_key of the frame, and the rest of the for loop. The lookup
\* self.delivery_lists[sub_key] raises KeyError for a sub_key that is gone.
hnm_accept_non_gd(F) ==
    LET sub_key == Head(F.hnm.sub_key_list) IN
    IF F.hnm.non_gd_msg_list = <<>> THEN hnm_for(NextSubKey(F))
    ELSE IF sub_key \notin DOMAIN delivery_lists THEN Raise(F)
    ELSE hnm_for(NextSubKey(AddToList(F, delivery_lists[sub_key], F.hnm.non_gd_msg_list)))

\* The for loop of handle_new_messages from its top, up to the call of
\* get_sql_messages_by_sub_key, where the greenlet waits for SQL with the
\* lock of the sub_key held, or up to the end of the call. The lookups
\* self.sub_key_locks[sub_key] and self.last_sql_run[sub_key] raise KeyError
\* for a sub_key the tool does not have. No lock is held by another greenlet
\* here: there is one call in progress and a task holds its lock for the
\* time of a remove only.
hnm_for(F) ==
    IF F.hnm.sub_key_list = <<>> THEN [F EXCEPT !.hnm.pc = "returned"]
    ELSE LET sub_key == Head(F.hnm.sub_key_list) IN
         IF sub_key \notin DOMAIN sub_key_locks THEN Raise(F)
         ELSE IF F.hnm.has_gd
         THEN IF sub_key \notin DOMAIN last_sql_run THEN Raise(F)
              ELSE [F EXCEPT !.hnm.pc = "fetch",
                             !.hnm.lock = sub_key_locks[sub_key],
                             !.fetches[sub_key] = @ + 1]
         ELSE hnm_accept_non_gd([F EXCEPT !.hnm.lock = sub_key_locks[sub_key]])

\* The frame F is where the call is now: the lock it held is released and the
\* one it holds is taken.
SetFrame(F) ==
    /\ hnm' = F.hnm
    /\ lists' = F.lists
    /\ enqueued' = F.enqueued
    /\ locks' = [o \in ObjIds |->
                    IF o = F.hnm.lock THEN "hnm"
                    ELSE IF o = hnm.lock THEN "free" ELSE locks[o]]

\* The lists the call changed on its way to the frame F.
Touched(F) == {o \in ObjIds : F.lists[o] # lists[o]}

\* The sub_key lists a caller passes.
SubKeyLists ==
    {<<a>> : a \in Keys} \cup {<<p[1], p[2]>> : p \in {q \in Keys \X Keys : q[1] # q[2]}}

\* The next message to publish: the one of the lowest id that no list was
\* given yet and that is not among given.
Unpublished(given) ==
    LET U == (MsgIds \ UNION {enqueued[o] : o \in ObjIds}) \ given
    IN  {m \in U : \A n \in U : m <= n}

\* handle_new_messages(cid, has_gd, sub_key_list, non_gd_msg_list) is called.
HnmCall(has_gd, sub_key_list, non_gd_msg_list) ==
    /\ hnm.pc \in {"idle", "returned", "raised"}
    /\ LET F == hnm_for([Frame EXCEPT
                            !.hnm = [pc |-> "running", sub_key_list |-> sub_key_list,
                                     has_gd |-> has_gd,
                                     non_gd_msg_list |-> non_gd_msg_list, lock |-> 0],
                            !.fetches = [k \in Keys |-> 0]])
       IN  /\ SetFrame(F)
           /\ seen' = [sub_key_list |-> sub_key_list, fetches |-> F.fetches,
                       fetched |-> [k \in Keys |-> {}],
                       delivery_lists |-> delivery_lists, touched |-> Touched(F)]
    /\ UNCHANGED <<registry, nobj, task_obj, keep_running, greenlet, catalog, confirmed,
                   snapshot, delivered, failed, aborted, conf_failed, prev_conf_failed,
                   readded, removed_all>>

\* fetch_gd_messages_by_sub_key(sub_key): with the lock of the sub_key held,
\* _fetch_gd_messages_by_sub_key, which is what handle_new_messages does for
\* has_gd, the list of this one sub_key and no non-GD message.
FetchGD(sub_key) == HnmCall(TRUE, <<sub_key>>, <<>>)

\* What the name of last_sql_run asks for: once the records are added, the
\* time of the fetch is kept in self.last_sql_run[sub_key].
HnmFetchReturns_Advances(records) ==
    /\ hnm.pc = "fetch"
    /\ LET sub_key == Head(hnm.sub_key_list)
           F == IF records = <<>> THEN hnm_accept_non_gd(Frame)
                ELSE IF sub_key \notin DOMAIN delivery_lists THEN Raise(Frame)
                ELSE hnm_accept_non_gd(AddToList(Frame, delivery_lists[sub_key], records))
       IN  /\ SetFrame(F)
           /\ seen' = [seen EXCEPT !.fetches = F.fetches,
                                   !.fetched[sub_key] = @ \cup Range(records),
                                   !.touched = @ \cup Touched(F)]
           /\ last_sql_run' = IF sub_key \in DOMAIN last_sql_run
                              THEN [last_sql_run EXCEPT ![sub_key] = "now"]
                              ELSE last_sql_run
    /\ UNCHANGED <<lock, sub_keys, batch_size, sub_key_locks, delivery_lists, delivery_tasks,
                   nobj, task_obj, keep_running, greenlet, catalog, confirmed,
                   snapshot, delivered, failed, aborted, conf_failed, prev_conf_failed,
                   readded, removed_all>>

\* get_sql_messages_by_sub_key returns the messages records: each is added to
\* self.delivery_lists[sub_key], a lookup that raises KeyError for a sub_key
\* that is gone; then the non-GD messages are accepted and the loop goes on.
HnmFetchReturns(records) ==
    /\ hnm.pc = "fetch"
    /\ LET sub_key == Head(hnm.sub_key_list)
           F == IF records = <<>> THEN hnm_accept_non_gd(Frame)
                ELSE IF sub_key \notin DOMAIN delivery_lists THEN Raise(Frame)
                ELSE hnm_accept_non_gd(AddToList(Frame, delivery_lists[sub_key], records))
       IN  /\ SetFrame(F)
           /\ seen' = [seen EXCEPT !.fetches = F.fetches,
                                   !.fetched[sub_key] = @ \cup Range(records),
                                   !.touched = @ \cup Touched(F)]
    /\ UNCHANGED <<registry, nobj, task_obj, keep_running, greenlet, catalog, confirmed,
                   snapshot, delivered, failed, aborted, conf_failed, prev_conf_failed,
                   readded, removed_all>>

\* get_sql_messages_by_sub_key raises: the exception leaves handle_new_messages.
HnmFetchRaises ==
    /\ hnm.pc = "fetch"
    /\ SetFrame(Raise(Frame))
    /\ UNCHANGED <<registry, nobj, task_obj, keep_running, greenlet, catalog, seen,
                   confirmed, snapshot, delivered, failed, aborted, conf_failed,
                   prev_conf_failed, readded, removed_all>>

\* Callers add and remove sub_keys and announce new messages, in the order of
\* their ids; SQL returns a message no list was given yet. No task runs meanwhile
\* (each is in its first sleep).
NextNotify ==
    \/ \E k \in Keys : AddSubKey(k)
    \/ \E k \in Keys : RemoveSubKey(k)
    \/ \E has_gd \in BOOLEAN : \E sub_key_list \in SubKeyLists :
           \E non_gd_msg_list \in {<<>>} \cup {<<m>> : m \in Unpublished({})} :
               HnmCall(has_gd, sub_key_list, non_gd_msg_list)
    \/ \E records \in {<<>>} \cup {<<m>> : m \in Unpublished(Range(hnm.non_gd_msg_list))} :
           HnmFetchReturns(records)
    \/ HnmFetchRaises

\* handle_new_messages reads no field of a message, and the order of a list
\* plays no part in it: one catalog is taken, of sort keys all different.
InitNotify ==
    Init /\ catalog = CHOOSE c \in Catalogs : \A a, b \in MsgIds : a # b => c[a] # c[b]

SpecNotify == InitNotify /\ [][NextNotify]_vars

\* ------------------------------------------------ properties of one delivery pass

\* deliver is being called with msg[t].
InDeliver(t) == pc[t] = "deliver"

\* C1: within one pass deliver is invoked in ascending order and nothing is
\* skipped: when deliver is invoked for a message, every message that was in
\* the list when the pass began, is still in it and sorts strictly before
\* that message has had deliver invoked in this pass.
C1_NothingSkipped ==
    \A t \in ObjIds :
        InDeliver(t) =>
            \A m \in snapshot[t] \cap Range(ListOf(t)) :
                MessageCmp(m, msg[t]) < 0 => m \in delivered[t]

\* C2: a message leaves a list only after confirm has returned for that same
\* message: every message given to the list of a registered sub_key that is
\* no longer in it has been confirmed (and so delivered).
C2_RemovedOnlyConfirmed ==
    \A k \in DOMAIN delivery_lists :
        \A m \in enqueued[delivery_lists[k]] \ Range(lists[delivery_lists[k]]) :
            m \in confirmed[delivery_lists[k]]

\* C3: no message is delivered ahead of one that failed and is still pending:
\* when deliver is invoked for a message, no message whose latest deliver
\* call failed and that is still in the list sorts strictly before it.
C3_NotAheadOfFailed ==
    \A t \in ObjIds :
        InDeliver(t) =>
            \A x \in failed[t] \cap Range(ListOf(t)) : MessageCmp(x, msg[t]) >= 0

\* C4: when deliver fails for a message the pass ends at once: from then until
\* the next pass begins the task is in no deliver and no confirm call and
\* removes nothing, the message is still in the list, and _run_delivery has
\* returned a false value to run.
C4_DeliverFailureEndsPass ==
    \A t \in ObjIds :
        aborted[t] # NoMsg =>
            /\ pc[t] \in {"sleep", "done"}
            /\ aborted[t] \in Range(ListOf(t))
            /\ success[t] = FALSE

\* C4's case: deliver failed for a message with another message queued.
C4_Witness ==
    \E t \in ObjIds : aborted[t] # NoMsg /\ Len(ListOf(t)) >= 2 /\ pc[t] = "sleep"

\* A pass of task t ends in this step.
PassEnds(t) == pc[t] \in {"deliver", "confirm", "remove"} /\ pc'[t] \in {"sleep", "done"}

\* C5: a message whose deliver succeeded and whose confirm failed is still in
\* the list when that pass ends, and a following pass that runs to its end
\* (no deliver call of it fails) has invoked deliver for the message.
C5_RedeliveredNextPass ==
    [][\A t \in ObjIds :
          (PassEnds(t) /\ success'[t] = TRUE) =>
              /\ conf_failed[t] \subseteq Range(ListOf(t)')
              /\ prev_conf_failed[t] \subseteq delivered[t]]_vars

\* ---------------------------------------------------- properties of the registry

\* What the program keeps, without what the properties observe.
program == <<registry, objects, greenlet, hnm>>

\* How often k is in the list s.
Count(s, k) == Cardinality({i \in 1..Len(s) : s[i] = k})

\* d[k], or absent when d has no k.
Lookup(d, k, absent) == IF k \in DOMAIN d THEN d[k] ELSE absent

\* What the tool keeps for the sub_key k.
Entry(k) ==
    [listed |-> Count(sub_keys, k),
     batch_size |-> Lookup(batch_size, k, 0),
     last_sql_run |-> Lookup(last_sql_run, k, "absent"),
     lock |-> Lookup(sub_key_locks, k, 0),
     list |-> Lookup(delivery_lists, k, 0),
     task |-> Lookup(delivery_tasks, k, 0)]

NoEntry ==
    [listed |-> 0, batch_size |-> 0, last_sql_run |-> "absent", lock |-> 0, list |-> 0,
     task |-> 0]

\* The tasks created for the sub_key k whose keep_running is set.
RunningTasks(k) == {t \in 1..nobj : task_obj[t].sub_key = k /\ keep_running[t]}

\* C6: add_sub_key is idempotent: for a sub_key the tool has, the call changes
\* nothing of the program's state (same list object and content, same lock,
\* same task, batch size and last_sql_run) and starts no task; after any call
\* for k there is one entry for k and one running task.
C6_AddIdempotent ==
    [][\A k \in Keys :
          AddSubKey(k) =>
              /\ k \in Range(sub_keys) => UNCHANGED program
              /\ Count(sub_keys', k) = 1
              /\ Cardinality(RunningTasks(k)') = 1
              /\ RunningTasks(k)' = {delivery_tasks'[k]}]_vars

\* C6's case: add_sub_key was called for a sub_key that was there.
C6_Witness == readded /\ Len(sub_keys) >= 1 /\ nobj >= 1

\* C7: each registered sub_key has exactly one task with keep_running set,
\* which is the task of its entry and is bound to the list of its entry; no
\* task with keep_running set is left for a sub_key that is not registered;
\* no list is the list of two tasks.
C7_OneTaskPerSubKey ==
    /\ \A k \in Range(sub_keys) :
           /\ k \in DOMAIN delivery_tasks /\ k \in DOMAIN delivery_lists
           /\ RunningTasks(k) = {delivery_tasks[k]}
           /\ task_obj[delivery_tasks[k]].delivery_list = delivery_lists[k]
    /\ \A t \in 1..nobj : keep_running[t] => task_obj[t].sub_key \in Range(sub_keys)
    /\ \A t \in 1..nobj : \A u \in 1..nobj :
           t # u => task_obj[t].delivery_list # task_obj[u].delivery_list

\* C7's case: a sub_key was removed and added again, its first task stopped
\* and its second one running.
C7_Witness ==
    \E t \in 1..nobj : \E u \in 1..nobj :
        /\ t # u
        /\ task_obj[t].sub_key = task_obj[u].sub_key
        /\ ~keep_running[t]
        /\ keep_running[u]
        /\ task_obj[u].sub_key \in Range(sub_keys)

\* C8: remove_sub_key for a registered sub_key leaves no trace of it in the
\* list and in the five dicts, clears keep_running of its task and leaves the
\* entry of every other sub_key, and every other task, as they were.
C8_RemoveLeavesNoTrace ==
    [][\A k \in Keys :
          (k \in Range(sub_keys) /\ RemoveSubKey(k)) =>
              /\ Entry(k)' = NoEntry
              /\ ~keep_running'[delivery_tasks[k]]
              /\ \A j \in Keys \ {k} : Entry(j)' = Entry(j)
              /\ \A t \in ObjIds \ {delivery_tasks[k]} : keep_running'[t] = keep_running[t]
              /\ UNCHANGED <<lock, nobj, lists, locks, task_obj, greenlet>>]_vars

\* C8's case: a sub_key was removed, its task stopped, while another sub_key
\* is registered.
C8_Witness ==
    \E t \in 1..nobj :
        /\ ~keep_running[t]
        /\ task_obj[t].sub_key \notin Range(sub_keys)
        /\ \E k \in Range(sub_keys) : k # task_obj[t].sub_key

\* ------------------------------------------- the tasks and handle_new_messages

\* Each sub_key is added at most once and k1 may be removed. Callers fetch
\* the durable messages of k1, announce durable messages for k2 and k1, and
\* announce a non-GD message for k1; SQL has messages for k1 only, ones no
\* list was given yet. The tasks run, and wait for the lock of their
\* list while a call holds it.
NextLocks ==
    \/ \E k \in Keys : (\A o \in 1..nobj : task_obj[o].sub_key # k) /\ AddSubKey(k)
    \/ RemoveSubKey("k1")
    \/ FetchGD("k1")
    \/ HnmCall(TRUE, <<"k2", "k1">>, <<>>)
    \/ \E m \in Unpublished({}) : HnmCall(FALSE, <<"k1">>, <<m>>)
    \/ /\ hnm.pc = "fetch"
       /\ \E records \in {<<>>} \cup {<<m>> : m \in Unpublished({})} :
              (records # <<>> => Head(hnm.sub_key_list) = "k1") /\ HnmFetchReturns(records)
    \/ HnmFetchRaises
    \/ \E t \in ObjIds : LoopTop(t)
    \/ \E t \in ObjIds : DeliverFails(t)
    \/ \E t \in ObjIds : DeliverReturns(t)
    \/ \E t \in ObjIds : ConfirmFails(t)
    \/ \E t \in ObjIds : ConfirmReturns(t)
    \/ \E t \in ObjIds : RemoveMsg(t)

SpecLocks == InitStop /\ [][NextLocks]_vars

\* ------------------------------------------------- fetches of the same messages

\* The sequence of the ids of the set S, in ascending order.
RECURSIVE InOrder(_)
InOrder(S) ==
    IF S = {} THEN <<>>
    ELSE LET m == CHOOSE x \in S : \A y \in S : x <= y IN <<m>> \o InOrder(S \ {m})

\* What get_sql_messages_by_sub_key(sub_key, None) returns when every message
\* is a durable message of the sub_key and SQL keeps each until it is
\* confirmed: last_sql_run being None, all that are not confirmed yet.
Unconfirmed(sub_key) ==
    IF sub_key \in DOMAIN delivery_lists
    THEN InOrder(MsgIds \ confirmed[delivery_lists[sub_key]])
    ELSE InOrder(MsgIds)

\* The longest list looked at: two fetches of every message.
MaxLen == 2 * MaxMsgs

\* One sub_key is added, once; callers fetch its durable messages, and SQL
\* returns those not confirmed yet; its task delivers them.
NextRefetch ==
    \/ (nobj = 0 /\ AddSubKey("k1"))
    \/ FetchGD("k1")
    \/ /\ hnm.pc = "fetch"
       /\ Len(lists[hnm.lock]) + Len(Unconfirmed(Head(hnm.sub_key_list))) <= MaxLen
       /\ HnmFetchReturns(Unconfirmed(Head(hnm.sub_key_list)))
    \/ HnmFetchRaises
    \/ \E t \in ObjIds : LoopTop(t)
    \/ \E t \in ObjIds : DeliverFails(t)
    \/ \E t \in ObjIds : DeliverReturns(t)
    \/ \E t \in ObjIds : ConfirmFails(t)
    \/ \E t \in ObjIds : ConfirmReturns(t)
    \/ \E t \in ObjIds : RemoveMsg(t)

SpecRefetch == InitStop /\ [][NextRefetch]_vars

\* --------------------------------------------- properties of handle_new_messages

\* The call of handle_new_messages is over.
HnmOver == hnm.pc \in {"returned", "raised"}

\* C9: handle_new_messages never raises to its caller.
C9_NeverRaises == hnm.pc # "raised"

\* The sub_key k of the call was registered when the call was made and still
\* is, with the same list.
RegisteredThroughout(k) ==
    /\ k \in DOMAIN seen.delivery_lists
    /\ k \in DOMAIN delivery_lists
    /\ delivery_lists[k] = seen.delivery_lists[k]

\* C10: when the call is over, for each registered sub_key of sub_key_list:
\* with has_gd one fetch was made for it and every record returned is in its
\* list, without has_gd none was made; the non-GD messages are in its list.
\* The call changed no list of another sub_key.
C10_FanOut ==
    HnmOver =>
        /\ \A k \in Range(seen.sub_key_list) :
               RegisteredThroughout(k) =>
                   /\ seen.fetches[k] = (IF hnm.has_gd THEN 1 ELSE 0)
                   /\ seen.fetched[k] \subseteq Range(lists[delivery_lists[k]])
                   /\ Range(hnm.non_gd_msg_list) \subseteq Range(lists[delivery_lists[k]])
        /\ \A k \in DOMAIN seen.delivery_lists \ Range(seen.sub_key_list) :
               seen.delivery_lists[k] \notin seen.touched

\* --------------------------------------------------- properties of the run loop

\* C11: a sleeping task sleeps some time in [10, 20], any of which may be
\* drawn, when the pass of this iteration ended on a failure of deliver, and
\* exactly 1 when it did not (the list was empty, or the pass ran to its end,
\* whatever confirm did).
C11_SleepTime ==
    \A t \in ObjIds :
        pc[t] = "sleep" =>
            sleep_time[t] = (IF aborted[t] # NoMsg THEN [lo |-> 10, hi |-> 20]
                                                   ELSE [lo |-> 1, hi |-> 1])

\* C11's case: a task sleeps after a pass in which confirm failed for one
\* message and deliver for a later one.
C11_Witness ==
    \E t \in ObjIds : pc[t] = "sleep" /\ aborted[t] # NoMsg /\ conf_failed[t] # {}

\* stop() was called for the task t.
Stopped(t) == pc[t] # "none" /\ ~keep_running[t]

\* The task t is in a pass: in deliver, in confirm, or about to remove.
InPass(t) == pc[t] \in {"deliver", "confirm", "remove"}

\* The run loop of t has ended.
Terminated(t) == pc[t] = "done"

\* C12, as claimed: once stopped, the pass or the sleep in progress goes on to
\* its end, and after it the task starts neither a pass nor a sleep.
C12_NoFurtherSleep ==
    [][\A t \in ObjIds :
          Stopped(t) =>
              /\ ~(pc[t] # "sleep" /\ pc'[t] = "sleep")
              /\ ~(~InPass(t) /\ InPass(t)')]_vars

\* C12, amended: stop only clears the flag. Once stopped, a pass in progress
\* goes on to its end and is followed by the sleep of its iteration; a task
\* that was spawned or sleeps starts neither a pass nor a sleep when it runs
\* next but ends, and a task that ended stays so. With the tasks scheduled
\* fairly every stopped task ends.
C12_StopCooperative ==
    /\ [][\A t \in ObjIds :
             Stopped(t) =>
                 /\ Stopped(t)'
                 /\ pc[t] \in {"spawned", "sleep"} => pc'[t] \in {pc[t], "done"}
                 /\ InPass(t) => (InPass(t)' \/ pc'[t] \in {"sleep", "done"})
                 /\ Terminated(t) => Terminated(t)']_vars
    /\ \A t \in ObjIds : Stopped(t) ~> Terminated(t)

\* C12's case: a stopped task is in a call of confirm, the pass going on.
C12_Witness == \E t \in ObjIds : Stopped(t) /\ pc[t] = "confirm" /\ Len(ListOf(t)) >= 2

\* ------------------------------------------------------- properties of the locks

\* C13: a task that sleeps, or is in a call of deliver or of confirm, holds
\* no lock: self.lock is free, and its delivery_lock and the lock of every
\* sub_key is free or held by a call of handle_new_messages, so that what
\* adds or removes a sub_key or gives it messages waits for no task.
C13_TaskHoldsNoLock ==
    \A t \in ObjIds :
        pc[t] \in {"sleep", "deliver", "confirm"} =>
            /\ lock = "free"
            /\ locks[task_obj[t].delivery_lock] \in {"free", "hnm"}
            /\ \A k \in DOMAIN sub_key_locks : locks[sub_key_locks[k]] \in {"free", "hnm"}

\* C13's case: a task sleeps after a failure of deliver while a call of
\* handle_new_messages holds the lock of its list.
C13_Witness ==
    \E t \in ObjIds :
        /\ pc[t] = "sleep" /\ aborted[t] # NoMsg
        /\ hnm.pc = "fetch" /\ hnm.lock = task_obj[t].delivery_lock

\* The locks of sub_keys that are held.
Held == {o \in ObjIds : locks[o] # "free"}

\* C14: self.lock and a lock of a sub_key are never held together, and no
\* call holds the locks of two sub_keys; every lock that is held is held by
\* the call of handle_new_messages (or fetch_gd_messages_by_sub_key) that
\* waits for SQL, and for no lock; so when a task waits for the lock of its
\* list, a step that hands it the lock or releases the lock can be taken:
\* nothing waits in a circle.
C14_LockDiscipline ==
    /\ lock = "free" \/ Held = {}
    /\ Cardinality({o \in ObjIds : locks[o] = "hnm"}) <= 1
    /\ \A o \in Held : locks[o] = "hnm" /\ hnm.pc = "fetch" /\ hnm.lock = o
    /\ \A t \in ObjIds :
           pc[t] = "remove" => (ENABLED RemoveMsg(t)) \/ (ENABLED HnmFetchRaises)

\* C14's case: a task waits for the lock of its list, which a call that
\* waits for SQL holds.
C14_Witness ==
    \E t \in ObjIds : pc[t] = "remove" /\ locks[task_obj[t].delivery_lock] = "hnm"

\* ------------------------------------------------------ properties of the order

\* The message a comes before the message b: its priority is higher, or the
\* priorities are equal and its ext_pub_time is earlier, or these are equal
\* too and its pub_time is earlier.
Before(a, b) ==
    \/ catalog[a].priority > catalog[b].priority
    \/ /\ catalog[a].priority = catalog[b].priority
       /\ catalog[a].ext_pub_time < catalog[b].ext_pub_time
    \/ /\ catalog[a].priority = catalog[b].priority
       /\ catalog[a].ext_pub_time = catalog[b].ext_pub_time
       /\ catalog[a].pub_time < catalog[b].pub_time

\* C15: every list iterates in ascending order of (9 - priority, ext_pub_time,
\* pub_time), whatever was added to it, in whatever order, and removed from
\* it: no message of a list comes before one that the list has earlier, so
\* messages of different keys are in the one order their keys give.
C15_ListsSorted ==
    \A o \in ObjIds :
        \A i \in 1..Len(lists[o]) : \A j \in 1..Len(lists[o]) :
            i < j => ~Before(lists[o][j], lists[o][i])

\* C15's case: a list holds two messages of different keys after another
\* message was removed from it.
C15_Witness ==
    \E o \in ObjIds :
        /\ Len(lists[o]) = 2
        /\ Before(lists[o][1], lists[o][2])
        /\ enqueued[o] \ Range(lists[o]) # {}

\* ------------------------------------------------- properties of remove_all_sub_keys

\* The tasks of the entries of the registered sub_keys.
TasksOfEntries == {delivery_tasks[k] : k \in Range(sub_keys) \cap DOMAIN delivery_tasks}

\* C16: remove_all_sub_keys leaves no sub_key in the list and no entry in any
\* of the five dicts, clears keep_running of the task of every sub_key that
\* was registered when it was called, and changes no other task and nothing
\* else.
C16_RemoveAll ==
    [][RemoveAllSubKeys =>
          /\ sub_keys' = <<>>
          /\ \A k \in Keys : Entry(k)' = NoEntry
          /\ Cardinality(TasksOfEntries) = Len(sub_keys)
          /\ \A t \in TasksOfEntries : ~keep_running'[t]
          /\ \A t \in ObjIds \ TasksOfEntries : keep_running'[t] = keep_running[t]
          /\ UNCHANGED <<lock, nobj, lists, locks, task_obj, greenlet>>]_vars

\* C16's case: remove_all_sub_keys was called with two sub_keys registered.
C16_Witness == removed_all = 2 /\ sub_keys = <<>>

\* C17: remove_sub_key returns for every sub_key in every state (what its try
\* block raises is logged and dropped), and for a sub_key that is not
\* registered it changes nothing: not the list, not a dict, not a task.
C17_RemoveUnregistered ==
    /\ [](\A k \in Keys : ENABLED RemoveSubKey(k))
    /\ [][\A k \in Keys :
             (k \notin Range(sub_keys) /\ RemoveSubKey(k)) => UNCHANGED program]_vars

\* C17's case: a sub_key that was never added, with another one registered
\* and its task running. The call changes nothing, so this is the state
\* before it and after it.
C17_Witness ==
    \E k \in Keys :
        /\ k \notin Range(sub_keys)
        /\ \A t \in 1..nobj : task_obj[t].sub_key # k
        /\ \E j \in Range(sub_keys) : keep_running[delivery_tasks[j]]

\* ------------------------------------------------------ properties of the fetches

C19_NoDuplicates ==
    \A o \in ObjIds :
        \A i \in 1..Len(lists[o]) : \A j \in 1..Len(lists[o]) :
            i # j => lists[o][i] # lists[o][j]

\* C20: while a call holds the lock of a sub_key and waits for SQL, the entry
\* of the sub_key is there: its lock and its list are the ones the call
\* took, and its task runs; and every record SQL returned to a call for a
\* sub_key was added to the list the sub_key had when the call was made.
C20_LockProtectsEntry ==
    /\ hnm.pc = "fetch" =>
           LET k == Head(hnm.sub_key_list) IN
           /\ k \in DOMAIN sub_key_locks /\ sub_key_locks[k] = hnm.lock
           /\ k \in DOMAIN delivery_lists
           /\ k \in DOMAIN delivery_tasks /\ keep_running[delivery_tasks[k]]
    /\ \A k \in DOMAIN seen.delivery_lists :
           seen.fetched[k] \subseteq enqueued[seen.delivery_lists[k]]

====
